---- MODULE Spec2Model ----
(***************************************************************************)
(* Model of the simple ETL pipeline of                                     *)
(* 05-data-engineering/projects/simple-etl/etl_example.py:                 *)
(* extract_data, transform_data, load_data and run_etl_pipeline.           *)
(*                                                                         *)
(* Python strings are sequences of one-character strings.  The Python      *)
(* value None is the one-element sequence NONE, which no string equals.    *)
(* An optional integer (the age column) is << >> for None and <<n>> for n. *)
(***************************************************************************)
EXTENDS Integers, Sequences, FiniteSets, TLC

\* ------------------------------------------------------------------ bounds
MaxBatch == 2
MaxRuns == 2
MaxNow == 2

\* The clock counts half days: strftime('%Y-%m-%d') keeps the day only.
TicksPerDay == 2

\* --------------------------------------------------------- Python strings
NONE == <<"None">>

WhiteSpace == {" ", "\t"}
UpperCase == <<"A", "B", "C", "D", "E", "F", "G", "H", "I", "J", "K", "L", "M",
               "N", "O", "P", "Q", "R", "S", "T", "U", "V", "W", "X", "Y", "Z">>
LowerCase == <<"a", "b", "c", "d", "e", "f", "g", "h", "i", "j", "k", "l", "m",
               "n", "o", "p", "q", "r", "s", "t", "u", "v", "w", "x", "y", "z">>
DigitChars == <<"0", "1", "2", "3", "4", "5", "6", "7", "8", "9">>

IsUpper(c) == \E k \in 1..26 : UpperCase[k] = c
IsLower(c) == \E k \in 1..26 : LowerCase[k] = c
IsCased(c) == IsUpper(c) \/ IsLower(c)
IsDigit(c) == \E k \in 1..10 : DigitChars[k] = c

LowerChar(c) == IF IsUpper(c) THEN LowerCase[CHOOSE k \in 1..26 : UpperCase[k] = c] ELSE c
UpperChar(c) == IF IsLower(c) THEN UpperCase[CHOOSE k \in 1..26 : LowerCase[k] = c] ELSE c

\* str.lower()
Lower(s) == [k \in 1..Len(s) |-> LowerChar(s[k])]

\* str.title(): a cased character is upper-cased when it starts a run of
\* cased characters and lower-cased otherwise.
Title(s) ==
    [k \in 1..Len(s) |->
        IF k > 1 /\ IsCased(s[k - 1]) THEN LowerChar(s[k]) ELSE UpperChar(s[k])]

\* str.strip(): drops leading and trailing whitespace.
Strip(s) ==
    LET keep == {k \in 1..Len(s) : s[k] \notin WhiteSpace}
    IN  IF keep = {} THEN << >>
        ELSE LET lo == CHOOSE k \in keep : \A j \in keep : k <= j
                 hi == CHOOSE k \in keep : \A j \in keep : k >= j
             IN  SubSeq(s, lo, hi)

\* '@' in s
HasAt(s) == \E k \in 1..Len(s) : s[k] = "@"

RECURSIVE DigitsValue(_)
DigitsValue(s) ==
    IF s = << >> THEN 0
    ELSE 10 * DigitsValue(SubSeq(s, 1, Len(s) - 1))
         + (CHOOSE k \in 1..10 : DigitChars[k] = s[Len(s)]) - 1

\* int(x) for x a str or None: the value, or the exception raised.
\* int() strips whitespace and accepts one leading sign.
ParseInt(x) ==
    IF x = NONE THEN [exc |-> "TypeError", val |-> 0]
    ELSE LET t == Strip(x)
             signed == t # << >> /\ t[1] \in {"+", "-"}
             digits == IF signed THEN Tail(t) ELSE t
         IN  IF digits # << >> /\ \A k \in 1..Len(digits) : IsDigit(digits[k])
             THEN [exc |-> "none",
                   val |-> IF signed /\ t[1] = "-" THEN 0 - DigitsValue(digits)
                           ELSE DigitsValue(digits)]
             ELSE [exc |-> "ValueError", val |-> 0]

\* record.get(key): the field, or None when the key is absent.
Get(record, key) == IF key \in DOMAIN record THEN record[key] ELSE NONE

\* bool(x) for x a str or None.
Truthy(x) == x # NONE /\ x # << >>

\* ------------------------------------------------------- transform_data
\* 'id': int(record.get('id', 0))
IdField(record) ==
    IF "id" \in DOMAIN record THEN ParseInt(record["id"])
    ELSE [exc |-> "none", val |-> 0]

\* record.get(key, '').strip(): None has no strip().
TextField(record, key) ==
    IF key \notin DOMAIN record THEN [exc |-> "none", val |-> << >>]
    ELSE IF record[key] = NONE THEN [exc |-> "AttributeError", val |-> << >>]
    ELSE [exc |-> "none", val |-> Strip(record[key])]

\* 'age': int(record.get('age', 0)) if record.get('age') else None
AgeField(record) ==
    IF Truthy(Get(record, "age"))
    THEN LET p == ParseInt(record["age"]) IN [exc |-> p.exc, val |-> <<p.val>>]
    ELSE [exc |-> "none", val |-> << >>]

\* As DateOf, with the time of day kept in the stamp.
DateOfTimestamp(t) == t

\* datetime.now().strftime('%Y-%m-%d')
DateOf(t) == t \div TicksPerDay

\* The exception the dict display of transform_data raises for a record,
\* its fields being evaluated in order; "none" when it raises nothing.
RaisedBy(record) ==
    LET excs == <<IdField(record).exc, TextField(record, "name").exc,
                  TextField(record, "email").exc, AgeField(record).exc,
                  TextField(record, "city").exc>>
        bad == {k \in 1..5 : excs[k] # "none"}
    IN  IF bad = {} THEN "none"
        ELSE excs[CHOOSE k \in bad : \A j \in bad : k <= j]

\* transformed_record of transform_data, for a record that raises nothing.
TransformRecordOf(record, t) ==
    [id |-> IdField(record).val,
     name |-> Title(TextField(record, "name").val),
     email |-> Lower(TextField(record, "email").val),
     age |-> AgeField(record).val,
     city |-> Title(TextField(record, "city").val),
     processed_date |-> DateOf(t)]

\* As IsValidEmail, without the test for "@".
IsValidEmailNonEmpty(email) == email # << >>

\* As IsValidEmail, asking for a "." as well.
IsValidEmailStrict(email) ==
    email # << >> /\ HasAt(email) /\ \E k \in 1..Len(email) : email[k] = "."

\* Data quality check of transform_data.
IsValidEmail(email) == email # << >> /\ HasAt(email)

\* ------------------------------------------------------------ load_data
\* NOT NULL constraints of the users table (name, email): with OR REPLACE
\* and no column default, a NULL aborts the statement with IntegrityError.
UpsertFails(record) == record.name = NONE \/ record.email = NONE

\* INSERT OR REPLACE INTO users: every row that conflicts with the new one
\* on the PRIMARY KEY (id) or on the UNIQUE column (email) is deleted, then
\* the new row is inserted.
Upsert(rows, record) ==
    {r \in rows : r.id # record.id /\ r.email # record.email} \cup {record}


\* ------------------------------------------------------------- inputs
\* Field values of the CSV source (the strings csv.DictReader yields).
Id1 == <<"1">>
Id2 == <<" ", "2">>
Id3 == <<"3">>
IdBad == <<"x">>
NameAlice == <<" ", " ", "a", "l", "i", "c", "e", " ", " ">>
NameBob == <<"b", "o", "b">>
EmailAB == <<" ", "A", "@", "B", ".", "c", " ">>
Emailab == <<"a", "@", "b", ".", "c">>
Emailcd == <<"c", "@", "d">>
EmailNoAt == <<"n", "o", "t", "-", "a", "n">>
EmailBlank == <<" ", " ">>
Age25 == <<"2", "5">>
AgeBad == <<"x">>
CityNY == <<"n", "e", "w", " ", "y", "o", "r", "k">>
CitySF == <<"s", "f">>

\* Rows of the source file.  A key that is missing from the header is absent
\* from the row; a row shorter than the header has None for the fields it
\* lacks (csv.DictReader restval).
RawRows ==
    { [id |-> Id1, name |-> NameAlice, email |-> EmailAB, age |-> Age25, city |-> CityNY],
      [id |-> Id2, name |-> NameBob, email |-> Emailab, age |-> << >>, city |-> CitySF],
      [id |-> Id1, name |-> NameBob, email |-> Emailcd, age |-> << >>, city |-> CitySF],
      [id |-> Id2, name |-> NameBob, email |-> EmailNoAt, age |-> << >>, city |-> CitySF],
      [id |-> Id3, name |-> NameBob, email |-> EmailBlank, age |-> Age25, city |-> CitySF],
      [email |-> Emailcd],
      [id |-> IdBad, name |-> NameBob, email |-> Emailcd, age |-> Age25, city |-> CitySF],
      [id |-> Id3, name |-> NameBob, email |-> Emailcd, age |-> AgeBad, city |-> CitySF],
      [id |-> Id3, name |-> NameBob, email |-> NONE, age |-> NONE, city |-> NONE] }

\* Rows the users table may hold before the first call.
OldCarol ==
    [id |-> 3, name |-> <<"C", "a", "r", "o", "l">>, email |-> <<"a", "@", "b", ".", "c">>, age |-> << >>,
     city |-> <<"L", "a">>, processed_date |-> 0]
OldLegacy ==
    [id |-> 1, name |-> <<"O", "l", "d">>, email |-> <<"l", "e", "g", "a", "c", "y">>, age |-> <<40>>,
     city |-> << >>, processed_date |-> 0]

\* The target database before the first call: no users table, or a users
\* table holding some of the old rows.
InitialDbs ==
    { [exists |-> FALSE, rows |-> {}] }
    \cup { [exists |-> TRUE, rows |-> rs] : rs \in {{OldCarol}, {OldCarol, OldLegacy}} }

\* Records a caller may hand to load_data directly.
CleanRows ==
    { [id |-> 1, name |-> <<"A", "l", "i", "c", "e">>, email |-> <<"a", "@", "b", ".", "c">>, age |-> <<25>>,
       city |-> <<"N", "y">>, processed_date |-> 0],
      [id |-> 2, name |-> <<"B", "o", "b">>, email |-> <<"a", "@", "b", ".", "c">>, age |-> << >>,
       city |-> <<"S", "f">>, processed_date |-> 0],
      [id |-> 1, name |-> <<"B", "o", "b">>, email |-> <<"c", "@", "d">>, age |-> << >>,
       city |-> <<"S", "f">>, processed_date |-> 0],
      [id |-> 2, name |-> NONE, email |-> <<"e", "@", "f">>, age |-> << >>,
       city |-> <<"S", "f">>, processed_date |-> 0] }

Batches(S, n) == UNION {[1..k -> S] : k \in 0..n}

Paths == {"sample_data.csv", "missing.csv"}

\* -------------------------------------------------------------- state
VARIABLES
    csv,          \* content of sample_data.csv, the only source file on disk
    db,           \* the committed target database: [exists, rows]
    now,          \* the wall clock
    pc,           \* position of the caller / run_etl_pipeline
    source_file,  \* argument of the current run_etl_pipeline call
    raw_data,     \* extract_data's result
    clean_data,   \* transform_data's list `transformed`; load_data's `data`
    i,            \* index of the next record of the running for loop
    raised,       \* the exception that ended the call, or "none"
    conn,         \* load_data's connection: "closed" or "open"
    txn,          \* rows of users as the open connection sees them
    inserted,     \* load_data's counter
    commits,      \* conn.commit() calls of the current load_data call
    out,          \* what the current call has printed
    hist          \* bookkeeping about the calls made so far

vars == <<csv, db, now, pc, source_file, raw_data, clean_data, i, raised,
          conn, txn, inserted, commits, out, hist>>

InitCall ==
    /\ now = 0
    /\ pc = "Idle"
    /\ source_file = "sample_data.csv"
    /\ raw_data = << >>
    /\ clean_data = << >>
    /\ i = 0
    /\ raised = "none"
    /\ conn = "closed"
    /\ txn = {}
    /\ inserted = 0
    /\ commits = 0
    /\ out = << >>
    /\ hist = [runs |-> 0, init |-> db, db0 |-> db, now0 |-> 0,
               prevPath |-> "", prevNow0 |-> 0]

Init ==
    /\ csv \in Batches(RawRows, MaxBatch)
    /\ db \in InitialDbs
    /\ InitCall

\* A call begins: what the previous call left in its locals is gone.
BeginCall(path) ==
    /\ pc \in {"Idle", "Done", "Aborted"}
    /\ hist.runs < MaxRuns
    /\ source_file' = path
    /\ raw_data' = << >>
    /\ i' = 0
    /\ raised' = "none"
    /\ inserted' = 0
    /\ commits' = 0
    /\ out' = << >>
    /\ hist' = [runs |-> hist.runs + 1, init |-> hist.init, db0 |-> db, now0 |-> now,
                prevPath |-> IF hist.runs = 0 THEN "" ELSE source_file,
                prevNow0 |-> hist.now0]

\* ------------------------------------------------------ run_etl_pipeline
\* The caller invokes run_etl_pipeline(source_file).
Start ==
    \E path \in Paths :
        /\ BeginCall(path)
        /\ clean_data' = << >>
        /\ pc' = "Extracting"
        /\ UNCHANGED <<csv, db, now, conn, txn>>

\* As NoData, with the early exit forgotten.
NoDataNever(raw) == FALSE

\* `if not raw_data` of run_etl_pipeline.
NoData(raw) == raw = << >>

\* extract_data: the rows of the file; FileNotFoundError is caught, reported
\* and turned into [].  Then run_etl_pipeline's test of the result.
Extract ==
    /\ pc = "Extracting"
    /\ LET found == source_file = "sample_data.csv"
           data == IF found THEN csv ELSE << >>
           said == IF found THEN <<<<"extracted", Len(data)>>>> ELSE <<<<"not found", 0>>>>
       IN  /\ raw_data' = data
           /\ IF NoData(data)
              THEN /\ out' = out \o said \o <<<<"no data", 0>>>>
                   /\ pc' = "Done"
                   /\ i' = i
              ELSE /\ out' = out \o said
                   /\ pc' = "Transforming"
                   /\ i' = 1
    /\ UNCHANGED <<csv, db, now, source_file, clean_data, raised, conn, txn,
                   inserted, commits, hist>>

\* One iteration of transform_data's loop.  An exception raised while the
\* record is built is caught nowhere: it ends transform_data and
\* run_etl_pipeline.
TransformRecord ==
    /\ pc = "Transforming"
    /\ i <= Len(raw_data)
    /\ LET record == raw_data[i]
       IN  IF RaisedBy(record) # "none"
           THEN /\ raised' = RaisedBy(record)
                /\ pc' = "Aborted"
                /\ UNCHANGED <<clean_data, i, out>>
           ELSE LET transformed_record == TransformRecordOf(record, now)
                IN  /\ IF IsValidEmail(transformed_record.email)
                       THEN /\ clean_data' = Append(clean_data, transformed_record)
                            /\ out' = out
                       ELSE /\ clean_data' = clean_data
                            /\ out' = Append(out, <<"skipping", i>>)
                    /\ i' = i + 1
                    /\ UNCHANGED <<raised, pc>>
    /\ UNCHANGED <<csv, db, now, source_file, raw_data, conn, txn, inserted,
                   commits, hist>>

\* transform_data returns `transformed`; run_etl_pipeline passes it to
\* load_data.
TransformReturn ==
    /\ pc = "Transforming"
    /\ i > Len(raw_data)
    /\ out' = Append(out, <<"transformed", Len(clean_data)>>)
    /\ pc' = "Loading"
    /\ i' = 0
    /\ UNCHANGED <<csv, db, now, source_file, raw_data, clean_data, raised,
                   conn, txn, inserted, commits, hist>>

\* ------------------------------------------------------------ load_data
\* sqlite3.connect and CREATE TABLE IF NOT EXISTS: the statement is not
\* part of a transaction, the table exists from here on.
LoadStart ==
    /\ pc = "Loading"
    /\ conn = "closed"
    /\ conn' = "open"
    /\ db' = [exists |-> TRUE, rows |-> db.rows]
    /\ txn' = db.rows
    /\ inserted' = 0
    /\ i' = 1
    /\ UNCHANGED <<csv, now, pc, source_file, raw_data, clean_data, raised,
                   commits, out, hist>>

\* As LoadRecord, with the try around the loop: the first error ends it.
LoadRecordFailFast ==
    /\ pc = "Loading"
    /\ conn = "open"
    /\ i <= Len(clean_data)
    /\ LET record == clean_data[i]
       IN  IF UpsertFails(record)
           THEN /\ out' = Append(out, <<"error inserting", record.id>>)
                /\ i' = Len(clean_data) + 1
                /\ UNCHANGED <<txn, inserted>>
           ELSE /\ txn' = Upsert(txn, record)
                /\ inserted' = inserted + 1
                /\ out' = out
                /\ i' = i + 1
    /\ UNCHANGED <<csv, db, now, pc, source_file, raw_data, clean_data, raised,
                   conn, commits, hist>>

\* As LoadRecord, with the counter incremented after the try statement.
LoadRecordCountsAll ==
    /\ pc = "Loading"
    /\ conn = "open"
    /\ i <= Len(clean_data)
    /\ LET record == clean_data[i]
       IN  IF UpsertFails(record)
           THEN /\ out' = Append(out, <<"error inserting", record.id>>)
                /\ txn' = txn
           ELSE /\ txn' = Upsert(txn, record)
                /\ out' = out
    /\ inserted' = inserted + 1
    /\ i' = i + 1
    /\ UNCHANGED <<csv, db, now, pc, source_file, raw_data, clean_data, raised,
                   conn, commits, hist>>

\* One iteration of load_data's loop: sqlite3.Error is caught and reported,
\* the loop goes on.
LoadRecord ==
    /\ pc = "Loading"
    /\ conn = "open"
    /\ i <= Len(clean_data)
    /\ LET record == clean_data[i]
       IN  IF UpsertFails(record)
           THEN /\ out' = Append(out, <<"error inserting", record.id>>)
                /\ UNCHANGED <<txn, inserted>>
           ELSE /\ txn' = Upsert(txn, record)
                /\ inserted' = inserted + 1
                /\ out' = out
    /\ i' = i + 1
    /\ UNCHANGED <<csv, db, now, pc, source_file, raw_data, clean_data, raised,
                   conn, commits, hist>>

\* conn.commit(), conn.close(), the report, and the return to the caller.
LoadCommit ==
    /\ pc = "Loading"
    /\ conn = "open"
    /\ i > Len(clean_data)
    /\ db' = [exists |-> TRUE, rows |-> txn]
    /\ commits' = commits + 1
    /\ conn' = "closed"
    /\ out' = Append(out, <<"loaded", inserted>>)
    /\ pc' = "Done"
    /\ UNCHANGED <<csv, now, source_file, raw_data, clean_data, i, raised, txn,
                   inserted, hist>>

\* Time passes.
Tick ==
    /\ now < MaxNow
    /\ now' = now + 1
    /\ UNCHANGED <<csv, db, pc, source_file, raw_data, clean_data, i, raised,
                   conn, txn, inserted, commits, out, hist>>

Next ==
    \/ Start
    \/ Extract
    \/ TransformRecord
    \/ TransformReturn
    \/ LoadStart
    \/ LoadRecord
    \/ LoadCommit
    \/ Tick

Spec == Init /\ [][Next]_vars

\* ------------------------------------------- load_data called directly
MaxLoadBatch == 3

InitLoad ==
    /\ csv = << >>
    /\ db \in InitialDbs
    /\ InitCall

\* A caller invokes load_data(data) on its own list of records.
CallLoad ==
    \E data \in Batches(CleanRows, MaxLoadBatch) :
        /\ BeginCall("")
        /\ clean_data' = data
        /\ pc' = "Loading"
        /\ UNCHANGED <<csv, db, now, conn, txn>>

NextLoad ==
    \/ CallLoad
    \/ LoadStart
    \/ LoadRecord
    \/ LoadCommit

SpecLoad == InitLoad /\ [][NextLoad]_vars

TypeOK ==
    /\ pc \in {"Idle", "Extracting", "Transforming", "Loading", "Done", "Aborted"}
    /\ conn \in {"closed", "open"}
    /\ now \in 0..MaxNow


\* ================================================================ claims
\* An email that is non-empty and contains "@".
WellFormed(email) == Len(email) > 0 /\ \E k \in 1..Len(email) : email[k] = "@"

\* Two instants of the same calendar day.
SameDay(a, b) == a \div TicksPerDay = b \div TicksPerDay

\* The records of the batch that violate a NOT NULL constraint, and the others.
Failing == {k \in 1..Len(clean_data) :
               clean_data[k].name = NONE \/ clean_data[k].email = NONE}
Succeeding == (1..Len(clean_data)) \ Failing

\* Two records that INSERT OR REPLACE cannot keep both.
Clash(a, b) == a.id = b.id \/ a.email = b.email

\* The run of run_etl_pipeline that just ended read the file and loaded it
\* into a target that held no row.
LoadedIntoEmpty ==
    /\ pc = "Done"
    /\ raw_data # << >>
    /\ hist.db0.rows = {}

\* Every raw row with a well-formed normalized email has exactly one row of
\* users with its id.
EachValidRowHasItsRow ==
    \A k \in 1..Len(raw_data) :
        LET t == TransformRecordOf(raw_data[k], 0)
        IN  WellFormed(t.email) => Cardinality({r \in db.rows : r.id = t.id}) = 1

\* Records with different ids have different emails.
EmailsDistinctAcrossIds ==
    \A a, b \in 1..Len(clean_data) :
        clean_data[a].id # clean_data[b].id => clean_data[a].email # clean_data[b].email

C2_NoInvalidEmailWritten ==
    /\ \A r \in (db.rows \cup txn) \ hist.init.rows : WellFormed(r.email)
    /\ \A k \in 1..Len(clean_data) : WellFormed(clean_data[k].email)

C2_Witness ==
    /\ pc = "Done"
    /\ hist.runs = 2
    /\ Len(clean_data) = 1
    /\ Len(raw_data) = 2
    /\ clean_data[1] \in db.rows

\* C3: when run_etl_pipeline has run twice in a row on the same source and
\* target within one calendar day, the second run leaves the target exactly
\* as the first run left it.
C3_SecondRunChangesNothing ==
    ( /\ pc \in {"Done", "Aborted"}
      /\ hist.runs >= 2
      /\ hist.prevPath = source_file
      /\ SameDay(hist.prevNow0, now) )
    => db = hist.db0

C3_Witness ==
    /\ pc = "Done"
    /\ hist.runs = 2
    /\ hist.prevPath = source_file
    /\ SameDay(hist.prevNow0, now)
    /\ hist.init.rows # {}
    /\ inserted = 2
    /\ clean_data[1].id # clean_data[2].id
    /\ clean_data[1].email = clean_data[2].email

\* C4: a run on a missing source file reports it, ends in Done without
\* raising, never enters transform_data or load_data, and leaves the target
\* as it was: no table created, no row written or changed.
C4_MissingSourceLeavesTarget ==
    (source_file = "missing.csv" /\ pc # "Extracting")
    => /\ pc = "Done"
       /\ raised = "none"
       /\ raw_data = << >>
       /\ clean_data = << >>
       /\ out = << <<"not found", 0>>, <<"no data", 0>> >>
       /\ conn = "closed"
       /\ commits = 0
       /\ db = hist.db0

C4_Witness ==
    /\ pc = "Done"
    /\ source_file = "missing.csv"
    /\ ~db.exists

\* C5 as stated: transform_data returns normally for every batch; no record
\* makes it raise.
C5_TransformNeverAborts == raised = "none"

\* C6 as stated: when an upsert of the call failed, the loop went on, there
\* was one commit, and every record upserted before the failure is in users
\* after the commit.
C6_EarlierUpsertsKept ==
    pc = "Done" =>
        \A f \in Failing :
            /\ i = Len(clean_data) + 1
            /\ commits = 1
            /\ \A k \in Succeeding : k < f => clean_data[k] \in db.rows

\* The ids load_data has reported as errors, in order.
ReportedErrors == SelectSeq(out, LAMBDA e : e[1] = "error inserting")

RECURSIVE FailingIds(_)
FailingIds(n) ==
    IF n = 0 THEN << >>
    ELSE IF n \in Failing THEN Append(FailingIds(n - 1), <<"error inserting", clean_data[n].id>>)
    ELSE FailingIds(n - 1)

\* C6 amended: the failing records are reported and skipped, every record is
\* attempted, there is one commit, and every record upserted in the call is
\* in users after the commit unless a later record of the call that was
\* upserted has its id or its email.
C6_ContinueOnError ==
    pc = "Done" =>
        /\ i = Len(clean_data) + 1
        /\ commits = 1
        /\ ReportedErrors = FailingIds(Len(clean_data))
        /\ \A f \in Failing : clean_data[f] \notin db.rows
        /\ \A k \in Succeeding :
               (\A j \in Succeeding : j > k => ~Clash(clean_data[j], clean_data[k]))
               => clean_data[k] \in db.rows

C6_Witness ==
    /\ pc = "Done"
    /\ Len(clean_data) = 3
    /\ 2 \in Failing
    /\ clean_data[1] \in db.rows
    /\ clean_data[3] \in db.rows
    /\ clean_data[1] # clean_data[3]

\* C7 as stated: for a batch loaded into an empty target, the count load_data
\* reports is the number of rows of users at the commit.
C7_CountIsRowCount ==
    (pc = "Done" /\ hist.db0.rows = {}) => inserted = Cardinality(db.rows)

\* C7 amended: the reported count is the number of records whose upsert did
\* not fail; into an empty target it is at least the number of rows of users
\* at the commit, and equal to it when no two upserted records share an id or
\* an email.
C7_CountIsSuccessfulUpserts ==
    pc = "Done" =>
        /\ inserted = Cardinality(Succeeding)
        /\ out[Len(out)] = <<"loaded", Cardinality(Succeeding)>>
        /\ hist.db0.rows = {} =>
             /\ inserted >= Cardinality(db.rows)
             /\ (\A a, b \in Succeeding : a # b => ~Clash(clean_data[a], clean_data[b]))
                => inserted = Cardinality(db.rows)

C7_Witness ==
    /\ pc = "Done"
    /\ hist.db0.rows = {}
    /\ Failing # {}
    /\ inserted = 2
    /\ Cardinality(db.rows) = 2

\* C8 as stated: the records of one transform_data invocation all carry the
\* same processed_date.
C8_OneProcessedDate ==
    \A a, b \in 1..Len(clean_data) :
        clean_data[a].processed_date = clean_data[b].processed_date

\* The steps of the linear state machine Idle, Extracting, Transforming,
\* Loading, Done.
LinearStep ==
    \/ pc' = pc
    \/ pc \in {"Idle", "Done"} /\ pc' = "Extracting"
    \/ pc = "Extracting" /\ pc' = "Done" /\ raw_data' = << >>
    \/ pc = "Extracting" /\ pc' = "Transforming" /\ raw_data' # << >>
    \/ pc = "Transforming" /\ pc' = "Loading" /\ i > Len(raw_data)
    \/ pc = "Loading" /\ pc' = "Done" /\ i > Len(clean_data)

\* C9 as stated: run_etl_pipeline only takes the steps of the linear state
\* machine; from Extracting it goes to Done exactly when the batch is empty,
\* and a non-empty batch goes on through Transforming to Loading.
C9_LinearStateMachine == [][LinearStep]_vars

\* C10 as stated: a row of users whose id is the id of no record of the batch
\* is in users, unchanged, after load_data.
C10_OtherIdsUntouched ==
    pc = "Done" =>
        \A r \in hist.db0.rows :
            (\A k \in 1..Len(clean_data) : clean_data[k].id # r.id) => r \in db.rows

====
